---- MODULE Spec2Model ----
(***************************************************************************)
(* Model of triton::common logging (src/src/logging.cc): the process-wide  *)
(* Logger sink (Logger::Log, Logger::Flush) and the scoped LogMessage      *)
(* header builder, driven by several threads.                              *)
(*                                                                         *)
(* Text is a sequence of one-character strings.  A file is the sequence of *)
(* characters the operating system holds for a path; std::cerr is the      *)
(* sequence of characters delivered to standard error.                     *)
(***************************************************************************)
EXTENDS Integers, Sequences, FiniteSets, TLC

(* ---------------------------- bounds ---------------------------------- *)
NumThreads == 2
MaxCalls == 3
MaxSets == 2
MaxEnv == 1
MaxFairCalls == 2
MaxReopens == 3
MaxFlagSets == 3
MaxFlush == 1

Threads == 1..NumThreads
NoThread == 0

(* ------------------------- program constants -------------------------- *)
kERROR == 0
kWARNING == 1
kINFO == 2

FilePaths == {"A", "B"}
NoPath == "none"
NL == "\n"

VARIABLES
  filename_,           \* Logger::filename_ ("" = standard error)
  file_name_changed_,  \* Logger::file_name_changed_
  file_stream_,        \* Logger::file_stream_ (std::ofstream)
  format_,             \* Logger::format_
  enables_,            \* Logger::enables_ : one flag per severity
  vlevel_,             \* Logger::vlevel_
  mutex_,              \* Logger::mutex_ : owner thread or NoThread
  stream_,             \* LogMessage::stream_ of each thread's live message
  msg,                 \* argument of the Log call each thread is in
  pc,                  \* position of each thread
  calls,               \* LogMessage objects each thread has constructed
  nlog,                \* Logger::Log calls each thread has made
  files,               \* contents of every file of the file system
  cerr,                \* characters delivered to standard error
  dirs,                \* paths the file system can open right now
  full,                \* the file system rejects writes right now
  args,                \* (file, level, clock reading) each thread's call site passes
  hdrfmt,              \* the Format each live message was constructed under
  hist,                \* Log calls in lock-acquisition order
  flushlog,            \* owner of the lock at each Logger::Flush call
  nsets,               \* configuration changes made so far
  nenv                 \* file-system changes made so far

vars == <<filename_, file_name_changed_, file_stream_, format_, mutex_,
          stream_, msg, pc, calls, nlog, files, cerr, dirs, full, args,
          hdrfmt, hist, nsets, nenv, enables_, vlevel_, flushlog>>

(* ------------------------------ text ---------------------------------- *)
Digit(d) == <<"0","1","2","3","4","5","6","7","8","9">>[d + 1]

RECURSIVE Dec(_)
\* operator<< of a non-negative integer: its decimal digits
Dec(n) == IF n < 10 THEN <<Digit(n)>> ELSE Dec(n \div 10) \o <<Digit(n % 10)>>

RECURSIVE Fill(_, _)
\* std::setfill('0') << std::setw(w): pad on the left up to width w
Fill(w, s) == IF Len(s) >= w THEN s ELSE Fill(w, <<"0">> \o s)

SetW(w, n) == Fill(w, Dec(n))

RECURSIVE Flatten(_)
Flatten(ss) == IF ss = <<>> THEN <<>> ELSE Head(ss) \o Flatten(Tail(ss))

(* --------------------------- std::ofstream ---------------------------- *)
\* exception mask of file_stream_: Logger::Logger() never calls
\* exceptions(), so the mask is the default goodbit (no bit raises)
StreamExceptions == {}

Throws(bits) == bits \cap StreamExceptions # {}

ClosedStream ==
  [open |-> FALSE, path |-> NoPath, bits |-> {}, buf |-> <<>>,
   opens |-> 0, closes |-> 0]

\* an open that leaves failbit set when it succeeds (before C++11)
StreamOpen_Sticky(fs, name, openable) ==
  IF fs.open
  THEN [fs EXCEPT !.bits = @ \cup {"failbit"}, !.opens = @ + 1]
  ELSE IF name \in openable
       THEN [fs EXCEPT !.open = TRUE, !.path = name,
                       !.buf = <<>>, !.opens = @ + 1]
       ELSE [fs EXCEPT !.bits = @ \cup {"failbit"}, !.opens = @ + 1]

is_open(fs) == fs.open

\* std::ofstream::open(name, std::ios::app)
StreamOpen(fs, name, openable) ==
  IF fs.open
  THEN [fs EXCEPT !.bits = @ \cup {"failbit"}, !.opens = @ + 1]
  ELSE IF name \in openable
       THEN [fs EXCEPT !.open = TRUE, !.path = name, !.bits = {},
                       !.buf = <<>>, !.opens = @ + 1]
       ELSE [fs EXCEPT !.bits = @ \cup {"failbit"}, !.opens = @ + 1]

\* an open without std::ios::app, which truncates the file
OpenContents_Trunc(old) == <<>>

\* what opening with std::ios::app does to the existing contents
OpenContents(old) == old

\* std::ofstream::close()
StreamClose(fs) ==
  IF fs.open
  THEN [fs EXCEPT !.open = FALSE, !.path = NoPath, !.buf = <<>>,
                  !.closes = @ + 1]
  ELSE [fs EXCEPT !.bits = @ \cup {"failbit"}, !.closes = @ + 1]

\* file_stream_ << msg : buffered when the stream is good
StreamPut(fs, s) ==
  IF fs.bits = {} /\ fs.open THEN [fs EXCEPT !.buf = @ \o s]
  ELSE [fs EXCEPT !.bits = @ \cup {"failbit"}]

\* << std::endl : put '\n' and flush the buffer to the file
StreamEndl(fs, isFull) ==
  IF fs.bits = {} /\ fs.open
  THEN IF isFull THEN [fs EXCEPT !.bits = {"badbit"}, !.buf = <<>>]
       ELSE [fs EXCEPT !.buf = <<>>]
  ELSE [fs EXCEPT !.bits = @ \cup {"failbit"}]

\* a stream whose writes land at the start of the file
Appended_AtStart(old, data) == data \o old

\* std::ios::app: every write lands at the end of the file
Appended(old, data) == old \o data

\* a write that forgets the line terminator
Flushed_NoEndl(fs, isFull) ==
  IF fs.bits = {} /\ fs.open /\ ~isFull THEN fs.buf ELSE <<>>

\* characters the flush of << std::endl delivers to the file
Flushed(fs, isFull) ==
  IF fs.bits = {} /\ fs.open /\ ~isFull THEN fs.buf \o <<NL>> ELSE <<>>

(* --------------------------- LogMessage -------------------------------- *)
level_name_ == <<"E", "W", "I">>

Min(a, b) == IF a < b THEN a ELSE b

\* an index wrapped around the table instead of clamped
LevelIndex_Modulo(level) == level % 3

\* level_name_[std::min(level, (uint32_t)Level::kINFO)]
LevelIndex(level) == Min(level, kINFO)

LevelChar(level) == level_name_[LevelIndex(level) + 1]

\* find instead of rfind: the first position of '/'
RFind_First(path) ==
  LET hits == {i \in 1..Len(path) : path[i] = "/"}
  IN IF hits = {} THEN -1 ELSE (CHOOSE i \in hits : \A j \in hits : i <= j) - 1

\* path.rfind('/'): the last position (0-based) of '/', or -1 (npos)
RFind(path) ==
  LET hits == {i \in 1..Len(path) : path[i] = "/"}
  IN IF hits = {} THEN -1 ELSE (CHOOSE i \in hits : \A j \in hits : j <= i) - 1

\* path.substr(pos + 1) when a '/' was found, else the path itself
BaseName(path) ==
  LET pos == RFind(path)
  IN IF pos # -1 THEN SubSeq(path, pos + 2, Len(path)) ELSE path

\* a header that shows the month as gmtime_r counts it, from 0
HeaderDefault_Month0(tm, pid, path, line, level) ==
  <<LevelChar(level)>> \o SetW(2, tm.mon) \o SetW(2, tm.mday) \o <<" ">>
    \o SetW(2, tm.hour) \o <<":">> \o SetW(2, tm.min) \o <<":">>
    \o SetW(2, tm.sec) \o <<".">> \o SetW(6, tm.usec) \o <<" ">>
    \o Dec(pid) \o <<" ">> \o path \o <<":">> \o Dec(line) \o <<"]", " ">>

\* the header of Format::kDEFAULT (POSIX branch)
HeaderDefault(tm, pid, path, line, level) ==
  <<LevelChar(level)>> \o SetW(2, tm.mon + 1) \o SetW(2, tm.mday) \o <<" ">>
    \o SetW(2, tm.hour) \o <<":">> \o SetW(2, tm.min) \o <<":">>
    \o SetW(2, tm.sec) \o <<".">> \o SetW(6, tm.usec) \o <<" ">>
    \o Dec(pid) \o <<" ">> \o path \o <<":">> \o Dec(line) \o <<"]", " ">>

\* a header that pads the seconds no more
HeaderISO8601_NoPad(tm, pid, path, line, level) ==
  Dec(tm.year + 1900) \o <<"-">> \o SetW(2, tm.mon + 1) \o <<"-">>
    \o SetW(2, tm.mday) \o <<"T">> \o SetW(2, tm.hour) \o <<":">>
    \o SetW(2, tm.min) \o <<":">> \o Dec(tm.sec) \o <<"Z", " ">>
    \o <<LevelChar(level)>> \o <<" ">> \o Dec(pid) \o <<" ">> \o path
    \o <<":">> \o Dec(line) \o <<"]", " ">>

\* the header of Format::kISO8601 (POSIX branch)
HeaderISO8601(tm, pid, path, line, level) ==
  Dec(tm.year + 1900) \o <<"-">> \o SetW(2, tm.mon + 1) \o <<"-">>
    \o SetW(2, tm.mday) \o <<"T">> \o SetW(2, tm.hour) \o <<":">>
    \o SetW(2, tm.min) \o <<":">> \o SetW(2, tm.sec) \o <<"Z", " ">>
    \o <<LevelChar(level)>> \o <<" ">> \o Dec(pid) \o <<" ">> \o path
    \o <<":">> \o Dec(line) \o <<"]", " ">>

\* LogMessage::LogMessage: the text left in stream_
Header(fmt, tm, pid, file, line, level) ==
  IF fmt = "kDEFAULT" THEN HeaderDefault(tm, pid, BaseName(file), line, level)
  ELSE HeaderISO8601(tm, pid, BaseName(file), line, level)

(* ------------------------- inputs of the model ------------------------ *)
\* getpid() of the host process
Pid == 5821

\* gettimeofday()/gmtime_r(): broken-down UTC instants the clock can show
Tm(y, mo, d, h, mi, s, us) ==
  [year |-> y, mon |-> mo, mday |-> d, hour |-> h, min |-> mi, sec |-> s,
   usec |-> us]

Clock == {Tm(124, 2, 4, 12, 8, 45, 123456), Tm(99, 11, 31, 23, 59, 9, 7)}

SrcChars == {"/", "a", "."}
SrcFiles == UNION {[1..n -> SrcChars] : n \in 0..3}
\* uint32_t level values, up to the largest integer TLC represents
Levels == {kERROR, kWARNING, kINFO, 3, 7, 2147483647}

\* the call of the examples of the specification: server.cc, line 42, INFO,
\* at 2024-03-04 12:08:45.123456 (line is the line the first call site of
\* thread 1 stands LineOf(1, 1) lines below)
ExampleInput ==
  [file |-> <<"s", "e", "r", "v", "e", "r", ".", "c", "c">>, level |-> kINFO,
   tm |-> Tm(124, 2, 4, 12, 8, 45, 123456), line |-> 31]

\* arguments of LogMessage(file, line, level) and the clock reading
AllInputs ==
  [file : SrcFiles, level : Levels, tm : Clock, line : {0}]
    \cup {ExampleInput}
RECURSIVE Sum(_, _)
Sum(f, S) == IF S = {} THEN 0
             ELSE LET x == CHOOSE y \in S : TRUE IN f[x] + Sum(f, S \ {x})

FewInput == [file |-> <<"a", "/", ".">>, level |-> kWARNING,
             tm |-> Tm(124, 2, 4, 12, 8, 45, 123456), line |-> 0]

\* the call site (line number) of the k-th message of thread t
LineOf(t, k) == 10 * t + k

Bodies == {<<"h", "i">>}

Diag == <<"failed creating trace file: ", NL>>

(* ------------------------------ Init ---------------------------------- *)
Init ==
  /\ filename_ = ""
  /\ file_name_changed_ = FALSE
  /\ file_stream_ = ClosedStream
  /\ format_ = "kDEFAULT"
  /\ mutex_ = NoThread
  /\ stream_ = [t \in Threads |-> <<>>]
  /\ msg = [t \in Threads |-> <<>>]
  /\ pc = [t \in Threads |-> "idle"]
  /\ calls = [t \in Threads |-> 0]
  /\ nlog = [t \in Threads |-> 0]
  /\ files = [p \in FilePaths |-> <<>>]
  /\ cerr = <<>>
  /\ dirs = {"A"}
  /\ full = FALSE
  /\ args = [t \in Threads |-> FewInput]
  /\ hdrfmt = [t \in Threads |-> "kDEFAULT"]
  /\ hist = <<>>
  /\ nsets = 0
  /\ nenv = 0
  /\ enables_ = <<TRUE, TRUE, TRUE>>
  /\ vlevel_ = 0
  /\ flushlog = <<>>

(* ------------------------- configuration ------------------------------ *)
\* Logger::SetLogOutFile (triton/common/logging.h): a new destination
\* path, marked as a pending change, under the Logger lock
SetLogOutFile(p) ==
  /\ nsets < MaxSets
  /\ mutex_ = NoThread
  /\ p # filename_
  /\ filename_' = p
  /\ file_name_changed_' = TRUE
  /\ nsets' = nsets + 1
  /\ UNCHANGED <<file_stream_, format_, mutex_, stream_, msg, pc, calls,
                 nlog, files, cerr, dirs, full, hist, nenv, args, hdrfmt,
                 enables_, vlevel_, flushlog>>

\* Logger::SetLogFormat (triton/common/logging.h)
SetLogFormat(f) ==
  /\ nsets < MaxSets
  /\ f # format_
  /\ format_' = f
  /\ nsets' = nsets + 1
  /\ UNCHANGED <<filename_, file_name_changed_, file_stream_, mutex_,
                 stream_, msg, pc, calls, nlog, files, cerr, dirs, full,
                 hist, nenv, args, hdrfmt, enables_, vlevel_,
                 flushlog>>

\* Logger::SetLogOutFile, for the runs that follow one handle through
\* several changes of path
SetLogOutFileR(p) ==
  /\ nsets < MaxReopens
  /\ mutex_ = NoThread
  /\ p # filename_
  /\ filename_' = p
  /\ file_name_changed_' = TRUE
  /\ nsets' = nsets + 1
  /\ UNCHANGED <<file_stream_, format_, mutex_, stream_, msg, pc, calls,
                 nlog, files, cerr, dirs, full, hist, nenv, args, hdrfmt,
                 enables_, vlevel_, flushlog>>

\* Logger::SetEnabled (triton/common/logging.h)
SetEnabled(level, enable) ==
  /\ nsets < MaxFlagSets
  /\ enables_[level + 1] # enable
  /\ enables_' = [enables_ EXCEPT ![level + 1] = enable]
  /\ nsets' = nsets + 1
  /\ UNCHANGED <<filename_, file_name_changed_, file_stream_, format_,
                 mutex_, stream_, msg, pc, calls, nlog, files, cerr, dirs,
                 full, hist, nenv, args, hdrfmt, vlevel_, flushlog>>

\* Logger::SetVerboseLevel (triton/common/logging.h)
SetVerboseLevel(vlevel) ==
  /\ nsets < MaxFlagSets
  /\ vlevel # vlevel_
  /\ vlevel_' = vlevel
  /\ nsets' = nsets + 1
  /\ UNCHANGED <<filename_, file_name_changed_, file_stream_, format_,
                 mutex_, stream_, msg, pc, calls, nlog, files, cerr, dirs,
                 full, hist, nenv, args, hdrfmt, enables_, flushlog>>

(* -------------------------- file system ------------------------------- *)
\* the directory of path p disappears or appears
EnvDir(p) ==
  /\ nenv < MaxEnv
  /\ dirs' = IF p \in dirs THEN dirs \ {p} ELSE dirs \cup {p}
  /\ nenv' = nenv + 1
  /\ UNCHANGED <<filename_, file_name_changed_, file_stream_, format_,
                 mutex_, stream_, msg, pc, calls, nlog, files, cerr, full,
                 hist, nsets, args, hdrfmt, enables_, vlevel_,
                 flushlog>>

\* the device fills up or is freed
EnvFull ==
  /\ nenv < MaxEnv
  /\ full' = ~full
  /\ nenv' = nenv + 1
  /\ UNCHANGED <<filename_, file_name_changed_, file_stream_, format_,
                 mutex_, stream_, msg, pc, calls, nlog, files, cerr, dirs,
                 hist, nsets, args, hdrfmt, enables_, vlevel_,
                 flushlog>>

(* --------------------------- LogMessage -------------------------------- *)
\* LogMessage::LogMessage(file, line, level)
Construct(t) ==
  /\ pc[t] = "idle"
  /\ Sum(calls, Threads) < MaxCalls
  /\ stream_' = [stream_ EXCEPT ![t] =
        Header(format_, args[t].tm, Pid, args[t].file,
               args[t].line + LineOf(t, calls[t] + 1), args[t].level)]
  /\ hdrfmt' = [hdrfmt EXCEPT ![t] = format_]
  /\ calls' = [calls EXCEPT ![t] = @ + 1]
  /\ pc' = [pc EXCEPT ![t] = "open"]
  /\ UNCHANGED <<filename_, file_name_changed_, file_stream_, format_,
                 mutex_, msg, nlog, files, cerr, dirs, full, hist, nsets,
                 nenv, args, enables_, vlevel_, flushlog>>

\* the caller streams the body into the open message
StreamBody(t, body) ==
  /\ pc[t] = "open"
  /\ stream_' = [stream_ EXCEPT ![t] = @ \o body]
  /\ pc' = [pc EXCEPT ![t] = "streamed"]
  /\ UNCHANGED <<filename_, file_name_changed_, file_stream_, format_,
                 mutex_, msg, calls, nlog, files, cerr, dirs, full, hist,
                 nsets, nenv, args, hdrfmt, enables_, vlevel_,
                 flushlog>>

\* a destructor that renders the header anew, under the format of the
\* moment
Destroy_Rerender(t) ==
  /\ pc[t] \in {"open", "streamed"}
  /\ msg' = [msg EXCEPT ![t] =
        Header(format_, args[t].tm, Pid, args[t].file,
               args[t].line + LineOf(t, calls[t]), args[t].level)]
  /\ stream_' = [stream_ EXCEPT ![t] = msg'[t]]
  /\ nlog' = [nlog EXCEPT ![t] = @ + 1]
  /\ pc' = [pc EXCEPT ![t] = "lock"]
  /\ UNCHANGED <<filename_, file_name_changed_, file_stream_, format_,
                 mutex_, calls, files, cerr, dirs, full, hist, nsets, nenv,
                 args, hdrfmt, enables_, vlevel_, flushlog>>

\* a destructor that publishes nothing when no body was streamed
Destroy_SkipsEmpty(t) ==
  /\ pc[t] \in {"open", "streamed"}
  /\ IF pc[t] = "open"
     THEN /\ pc' = [pc EXCEPT ![t] = "idle"]
          /\ stream_' = [stream_ EXCEPT ![t] = <<>>]
          /\ UNCHANGED <<msg, nlog>>
     ELSE /\ msg' = [msg EXCEPT ![t] = stream_[t]]
          /\ nlog' = [nlog EXCEPT ![t] = @ + 1]
          /\ pc' = [pc EXCEPT ![t] = "lock"]
          /\ UNCHANGED stream_
  /\ UNCHANGED <<filename_, file_name_changed_, file_stream_, format_,
                 mutex_, calls, files, cerr, dirs, full, hist, nsets, nenv,
                 args, hdrfmt, enables_, vlevel_, flushlog>>

\* LogMessage::~LogMessage: gLogger_.Log(stream_.str()) is entered
Destroy(t) ==
  /\ pc[t] \in {"open", "streamed"}
  /\ msg' = [msg EXCEPT ![t] = stream_[t]]
  /\ nlog' = [nlog EXCEPT ![t] = @ + 1]
  /\ pc' = [pc EXCEPT ![t] = "lock"]
  /\ UNCHANGED <<filename_, file_name_changed_, file_stream_, format_,
                 mutex_, stream_, calls, files, cerr, dirs, full, hist,
                 nsets, nenv, args, hdrfmt, enables_, vlevel_,
                 flushlog>>

(* ---------------------------- Logger::Log ------------------------------ *)
\* a Log that takes no lock
LockFree_NoLock(t) == TRUE

\* whether thread t may take the Logger lock
LockFree(t) == mutex_ = NoThread

\* a Log that returns at once when the severity of the message is disabled
Log_Lock_Gated(t) ==
  /\ pc[t] = "lock"
  /\ LockFree(t)
  /\ mutex_' = t
  /\ hist' = Append(hist, [owner |-> t, text |-> msg[t], path |-> filename_,
                          ok |-> TRUE, flags |-> enables_,
                          vlevel |-> vlevel_])
  /\ pc' = [pc EXCEPT ![t] =
              IF enables_[LevelIndex(args[t].level) + 1]
              THEN "check" ELSE "unlock"]
  /\ UNCHANGED <<filename_, file_name_changed_, file_stream_, format_,
                 stream_, msg, calls, nlog, files, cerr, dirs, full, nsets,
                 nenv, args, hdrfmt, enables_, vlevel_, flushlog>>

\* line 55: std::lock_guard<std::mutex> lock(mutex_)
Log_Lock(t) ==
  /\ pc[t] = "lock"
  /\ LockFree(t)
  /\ mutex_' = t
  /\ hist' = Append(hist, [owner |-> t, text |-> msg[t], path |-> filename_,
                          ok |-> TRUE, flags |-> enables_,
                          vlevel |-> vlevel_])
  /\ pc' = [pc EXCEPT ![t] = "check"]
  /\ UNCHANGED <<filename_, file_name_changed_, file_stream_, format_,
                 stream_, msg, calls, nlog, files, cerr, dirs, full, nsets,
                 nenv, args, hdrfmt, enables_, vlevel_, flushlog>>

\* a Log that never looks at the pending path change
Reopened_NoReopen(fs, changed, name, openable) ==
  IF ~is_open(fs) THEN StreamOpen(fs, name, openable) ELSE fs

\* lines 59-67: the stream after open-if-needed / close-and-reopen
Reopened(fs, changed, name, openable) ==
  IF ~is_open(fs) THEN StreamOpen(fs, name, openable)
  ELSE IF is_open(fs) /\ changed
       THEN StreamOpen(StreamClose(fs), name, openable)
       ELSE fs

\* a Log that leaves the pending flag as it found it
ChangedAfter_Stays(fs, changed) == changed

\* lines 60, 65: the flag after open-if-needed / close-and-reopen
ChangedAfter(fs, changed) ==
  IF ~is_open(fs) THEN FALSE
  ELSE IF is_open(fs) /\ changed THEN FALSE ELSE changed

\* a Log that treats the empty path as a file name
ToFile_Always(name) == TRUE

\* line 56: Logger::GetLogOutFile() != ""
ToFile(name) == name # ""

\* a Log that falls back to standard error when the file does not open
Log_Open_Fallback(t) ==
  /\ pc[t] = "check"
  /\ IF ToFile(filename_)
     THEN LET fs == Reopened(file_stream_, file_name_changed_, filename_, dirs)
          IN /\ file_stream_' = fs
             /\ file_name_changed_' = ChangedAfter(file_stream_, file_name_changed_)
             /\ files' = IF fs.open /\ fs # file_stream_
                         THEN [files EXCEPT ![fs.path] = OpenContents(@)]
                         ELSE files
             /\ cerr' = cerr
             /\ pc' = [pc EXCEPT ![t] = IF fs.open THEN "write" ELSE "cerr"]
     ELSE /\ pc' = [pc EXCEPT ![t] = "cerr"]
          /\ UNCHANGED <<file_stream_, file_name_changed_, files, cerr>>
  /\ UNCHANGED <<filename_, format_, mutex_, stream_, msg, calls, nlog, dirs,
                 full, hist, nsets, nenv, args, hdrfmt, enables_, vlevel_,
                 flushlog>>

\* lines 56-67 (and 70-75 when the open raises)
Log_Open(t) ==
  /\ pc[t] = "check"
  /\ IF ToFile(filename_)
     THEN LET fs == Reopened(file_stream_, file_name_changed_, filename_, dirs)
          IN /\ file_stream_' = fs
             /\ file_name_changed_' = ChangedAfter(file_stream_, file_name_changed_)
             /\ files' = IF fs.open /\ fs # file_stream_
                         THEN [files EXCEPT ![fs.path] = OpenContents(@)]
                         ELSE files
             /\ IF Throws(fs.bits)
                THEN /\ cerr' = cerr \o Diag
                     /\ pc' = [pc EXCEPT ![t] = "unlock"]
                ELSE /\ cerr' = cerr
                     /\ pc' = [pc EXCEPT ![t] = "write"]
     ELSE /\ pc' = [pc EXCEPT ![t] = "cerr"]
          /\ UNCHANGED <<file_stream_, file_name_changed_, files, cerr>>
  /\ UNCHANGED <<filename_, format_, mutex_, stream_, msg, calls, nlog, dirs,
                 full, hist, nsets, nenv, args, hdrfmt, enables_, vlevel_,
                 flushlog>>

\* line 68: file_stream_ << msg
Log_Write(t) ==
  /\ pc[t] = "write"
  /\ LET fs == StreamPut(file_stream_, msg[t])
     IN /\ file_stream_' = fs
        /\ IF Throws(fs.bits)
           THEN /\ cerr' = cerr \o Diag
                /\ pc' = [pc EXCEPT ![t] = "unlock"]
           ELSE /\ cerr' = cerr
                /\ pc' = [pc EXCEPT ![t] = "endl"]
  /\ UNCHANGED <<filename_, file_name_changed_, format_, mutex_, stream_,
                 msg, calls, nlog, files, dirs, full, hist, nsets, nenv,
                 args, hdrfmt, enables_, vlevel_, flushlog>>

\* line 68: << std::endl (and 70-75 when the flush raises)
Log_Endl(t) ==
  /\ pc[t] = "endl"
  /\ LET fs == StreamEndl(file_stream_, full)
     IN /\ file_stream_' = fs
        /\ files' = IF file_stream_.open
                    THEN [files EXCEPT ![file_stream_.path] =
                                   Appended(@, Flushed(file_stream_, full))]
                    ELSE files
        /\ cerr' = IF Throws(fs.bits) THEN cerr \o Diag ELSE cerr
  /\ pc' = [pc EXCEPT ![t] = "unlock"]
  /\ UNCHANGED <<filename_, file_name_changed_, format_, mutex_, stream_,
                 msg, calls, nlog, dirs, full, hist, nsets, nenv, args,
                 hdrfmt, enables_, vlevel_, flushlog>>

\* a Log that drops the file handle when it writes to standard error
Log_Cerr_Closes(t) ==
  /\ pc[t] = "cerr"
  /\ cerr' = cerr \o msg[t]
  /\ pc' = [pc EXCEPT ![t] = "cerrnl"]
  /\ file_stream_' = IF is_open(file_stream_)
                     THEN StreamClose(file_stream_) ELSE file_stream_
  /\ file_name_changed_' = FALSE
  /\ UNCHANGED <<filename_, format_, mutex_, stream_, msg, calls, nlog,
                 files, dirs, full, hist, nsets, nenv, args, hdrfmt,
                 enables_, vlevel_, flushlog>>

\* line 77: std::cerr << msg
Log_Cerr(t) ==
  /\ pc[t] = "cerr"
  /\ cerr' = cerr \o msg[t]
  /\ pc' = [pc EXCEPT ![t] = "cerrnl"]
  /\ UNCHANGED <<filename_, file_name_changed_, file_stream_, format_,
                 mutex_, stream_, msg, calls, nlog, files, dirs, full, hist,
                 nsets, nenv, args, hdrfmt, enables_, vlevel_,
                 flushlog>>

\* line 77: << std::endl
Log_CerrEndl(t) ==
  /\ pc[t] = "cerrnl"
  /\ cerr' = cerr \o <<NL>>
  /\ pc' = [pc EXCEPT ![t] = "unlock"]
  /\ UNCHANGED <<filename_, file_name_changed_, file_stream_, format_,
                 mutex_, stream_, msg, calls, nlog, files, dirs, full, hist,
                 nsets, nenv, args, hdrfmt, enables_, vlevel_,
                 flushlog>>

\* no stream operation of the Log call that is about to return has failed
CallOk == filename_ = "" \/ file_stream_.bits = {}

\* a lock that stays taken when the call failed
Released_KeptOnFailure(t) == IF CallOk THEN NoThread ELSE t

\* the Logger lock after the lock_guard of thread t is destroyed
Released(t) == NoThread

\* line 79: the lock_guard releases the lock, Log returns and the
\* LogMessage is gone
Log_Unlock(t) ==
  /\ pc[t] = "unlock"
  /\ mutex_' = Released(t)
  /\ msg' = [msg EXCEPT ![t] = <<>>]
  /\ stream_' = [stream_ EXCEPT ![t] = <<>>]
  /\ pc' = [pc EXCEPT ![t] = "idle"]
  /\ hist' = [i \in 1..Len(hist) |->
                IF i = Len(hist) /\ hist[i].owner = t
                THEN [hist[i] EXCEPT !.ok = CallOk] ELSE hist[i]]
  /\ UNCHANGED <<filename_, file_name_changed_, file_stream_, format_, calls,
                 nlog, files, cerr, dirs, full, nsets, nenv, args, hdrfmt,
                 enables_, vlevel_, flushlog>>

(* --------------------------- Logger::Flush ----------------------------- *)
\* a Flush that takes the lock Log takes
FlushEntry_Locked(owner) == owner = NoThread

\* lines 81-85: Flush declares no lock_guard, so it starts whoever owns
\* the lock
FlushEntry(owner) == TRUE

\* line 84: std::flush writes no character to std::cerr
FlushCerr(err) == err

\* line 84: what a flush can leave in the state of std::cerr
FlushBits == {{}, {"badbit"}}

\* exception mask of std::cerr: the program never calls exceptions() on it
CerrExceptions == {}

\* lines 81-85: Logger::Flush, called from any context at any moment
Flush ==
  /\ Len(flushlog) < MaxFlush
  /\ FlushEntry(mutex_)
  /\ cerr' = FlushCerr(cerr)
  /\ \E bits \in FlushBits :
       flushlog' = Append(flushlog, [owner |-> mutex_,
                                     raised |-> bits \cap CerrExceptions # {}])
  /\ UNCHANGED <<filename_, file_name_changed_, file_stream_, format_,
                 mutex_, stream_, msg, pc, calls, nlog, files, dirs, full,
                 hist, nsets, nenv, args, hdrfmt, enables_, vlevel_>>

(* --------------------------- specification ----------------------------- *)
LogStep(t) ==
  \/ Log_Lock(t)
  \/ Log_Open(t)
  \/ Log_Write(t)
  \/ Log_Endl(t)
  \/ Log_Cerr(t)
  \/ Log_CerrEndl(t)
  \/ Log_Unlock(t)

\* threads publish messages while the destination is changed and the
\* directories of the files come and go
Next ==
  \/ \E t \in Threads : Construct(t)
  \/ \E t \in Threads : Destroy(t)
  \/ \E t \in Threads : LogStep(t)
  \/ \E p \in FilePaths \cup {""} : SetLogOutFile(p)
  \/ \E p \in FilePaths : EnvDir(p)

Spec == Init /\ [][Next]_vars

\* LogMessage::LogMessage, for the runs that need fewer calls: those in
\* which every call must return and those that vary the flags
ConstructL(t) ==
  /\ Sum(calls, Threads) < MaxFairCalls
  /\ Construct(t)

\* the steps that decide whether a Log call returns: the calls themselves,
\* the destination changes and the failures of the file system, of opens
\* and of writes
NextL ==
  \/ \E t \in Threads : ConstructL(t)
  \/ \E t \in Threads : Destroy(t)
  \/ \E t \in Threads : LogStep(t)
  \/ \E p \in FilePaths \cup {""} : SetLogOutFile(p)
  \/ \E p \in FilePaths : EnvDir(p)
  \/ EnvFull

\* every thread that can take a step of Logger::Log eventually takes one
FairSpec ==
  Init /\ [][NextL]_vars /\ \A t \in Threads : WF_vars(LogStep(t))

\* one thread builds, fills and publishes messages, for every call-site
\* argument and under either format
InitH ==
  /\ Init!1 /\ Init!2 /\ Init!3 /\ Init!4 /\ Init!5 /\ Init!6 /\ Init!7
  /\ Init!8 /\ Init!9 /\ Init!10 /\ Init!11 /\ Init!12 /\ Init!13
  /\ Init!14
  /\ \E in \in AllInputs : args = [t \in Threads |-> in]
  /\ hdrfmt = [t \in Threads |-> "kDEFAULT"]
  /\ hist = <<>>
  /\ nsets = 0
  /\ nenv = 0
  /\ enables_ = <<TRUE, TRUE, TRUE>>
  /\ vlevel_ = 0
  /\ flushlog = <<>>

NextH ==
  \/ Construct(1)
  \/ \E b \in Bodies : StreamBody(1, b)
  \/ Destroy(1)
  \/ Log_Lock(1)
  \/ Log_Open(1)
  \/ Log_Cerr(1)
  \/ Log_CerrEndl(1)
  \/ Log_Unlock(1)
  \/ \E f \in {"kDEFAULT", "kISO8601"} : SetLogFormat(f)

SpecH == InitH /\ [][NextH]_vars

\* one thread logs while the destination changes up to MaxReopens times
\* and the directories come and go
NextR ==
  \/ Construct(1)
  \/ Destroy(1)
  \/ LogStep(1)
  \/ \E p \in FilePaths \cup {""} : SetLogOutFileR(p)
  \/ \E p \in FilePaths : EnvDir(p)

SpecR == Init /\ [][NextR]_vars

\* one thread logs while other contexts set the enable flags and the
\* verbosity, change the destination and call Flush
NextS ==
  \/ ConstructL(1)
  \/ Destroy(1)
  \/ LogStep(1)
  \/ \E l \in {kERROR, kWARNING, kINFO} : \E b \in BOOLEAN : SetEnabled(l, b)
  \/ \E v \in {0, 1} : SetVerboseLevel(v)
  \/ \E p \in FilePaths \cup {""} : SetLogOutFile(p)
  \/ Flush

SpecS == Init /\ [][NextS]_vars

(* ------------------------------ claims --------------------------------- *)
InLog(t) == pc[t] \in {"check", "write", "endl", "cerr", "cerrnl", "unlock"}

AllReturned == \A t \in Threads : pc[t] = "idle"

Line(h) == h.text \o <<NL>>

IsPrefix(s, u) == Len(s) <= Len(u) /\ SubSeq(u, 1, Len(s)) = s

IsSuffix(s, u) == Len(s) <= Len(u) /\ SubSeq(u, Len(u) - Len(s) + 1, Len(u)) = s

RECURSIVE WholeLines(_, _)
\* content is made of whole lines of calls of hs, in the order of hs
WholeLines(content, hs) ==
  IF content = <<>> THEN TRUE
  ELSE IF hs = <<>> THEN FALSE
  ELSE \/ /\ IsPrefix(Line(Head(hs)), content)
          /\ WholeLines(SubSeq(content, Len(Line(Head(hs))) + 1, Len(content)),
                        Tail(hs))
       \/ WholeLines(content, Tail(hs))

\* C1: at most one thread is inside the body of Logger::Log at a time, the
\* thread inside holds the lock, the stream buffer holds nothing but the
\* message of the thread that is writing, and every file is made of whole
\* lines of Log calls: the characters of two lines are never interleaved.
C1_LogIsSerialized ==
  /\ \A t1, t2 \in Threads : t1 # t2 => ~(InLog(t1) /\ InLog(t2))
  /\ \A t \in Threads : InLog(t) => mutex_ = t
  /\ file_stream_.buf # <<>> =>
       \E t \in Threads : pc[t] = "endl" /\ file_stream_.buf = msg[t]
  /\ \A p \in FilePaths : WholeLines(files[p], hist)

\* a thread is between the two halves of its write while another waits
C1_Witness ==
  \E t1, t2 \in Threads :
    /\ t1 # t2
    /\ pc[t1] = "endl" /\ file_stream_.buf = msg[t1] /\ msg[t1] # <<>>
    /\ pc[t2] = "lock"
    /\ \E p \in FilePaths : files[p] # <<>>

\* the lines of all Log calls so far, in lock-acquisition order
LinesOf(hs) == Flatten([i \in 1..Len(hs) |-> Line(hs[i])])

\* every Log call so far ran with destination p and without an I/O failure
OnlyTo(p) == \A i \in 1..Len(hist) : hist[i].path = p /\ hist[i].ok

\* C2: when every Log call so far was made with the same file path as
\* destination, the file could be opened and written, and all calls have
\* returned, the file holds exactly the messages of the calls, each once,
\* whole and followed by one line terminator, in lock-acquisition order.
C2_RoundTrip ==
  \A p \in FilePaths :
    (AllReturned /\ OnlyTo(p)) => files[p] = LinesOf(hist)

\* three calls of two threads have been written to one file
C2_Witness ==
  \E p \in FilePaths :
    /\ AllReturned /\ OnlyTo(p) /\ Len(hist) = MaxCalls
    /\ \E i, j \in 1..Len(hist) : hist[i].owner # hist[j].owner
    /\ files[p] = LinesOf(hist)

\* the Log calls that ran with destination p, in lock-acquisition order
CallsTo(p) == SelectSeq(hist, LAMBDA h : h.path = p)

\* the files the Logger holds an open handle on
OpenHandles == IF file_stream_.open THEN {file_stream_.path} ELSE {}

\* C3: a write goes through a handle opened on the configured path, every
\* line of a file comes from a Log call that ran with that file configured
\* (nothing reaches the stale file after a path change), at most one handle
\* is open, and a call whose open and write succeed leaves its line at the
\* end of the configured file.
C3_HandleMatchesPath ==
  /\ \A t \in Threads :
       (pc[t] \in {"write", "endl"} /\ file_stream_.open)
          => file_stream_.path = filename_
  /\ \A p \in FilePaths : WholeLines(files[p], CallsTo(p))
  /\ Cardinality(OpenHandles) <= 1
  /\ \A t \in Threads :
       (pc[t] = "unlock" /\ filename_ # "" /\ file_stream_.bits = {})
          => /\ file_stream_.open /\ file_stream_.path = filename_
             /\ IsSuffix(msg[t] \o <<NL>>, files[filename_])

\* after a line went to A the path was changed to B and a line went to B
C3_Witness ==
  \E i \in 1..Len(hist) : \E j \in (i + 1)..Len(hist) :
    /\ hist[i].path \in FilePaths /\ hist[j].path \in FilePaths
    /\ hist[i].path # hist[j].path
    /\ hist[i].ok /\ hist[j].ok
    /\ AllReturned
    /\ IsSuffix(Line(hist[i]), files[hist[i].path])
    /\ IsSuffix(Line(hist[j]), files[hist[j].path])

\* C4: whether its open and write succeed or fail, a Log call returns with
\* the lock released, and every thread waiting for the lock eventually
\* takes it and returns from Log.
C4_LogAlwaysReturns ==
  /\ [](AllReturned => mutex_ = NoThread)
  /\ \A t \in Threads : (pc[t] = "lock") ~> (pc[t] = "idle")

\* a call whose open failed has returned, and a later call of another
\* thread has returned too
C4_Witness ==
  /\ AllReturned
  /\ mutex_ = NoThread
  /\ \E i \in 1..Len(hist) : \E j \in (i + 1)..Len(hist) :
       ~hist[i].ok /\ hist[j].owner # hist[i].owner

\* how many diagnostics standard error holds
DiagCount == Cardinality({i \in 1..Len(cerr) : cerr[i] = Diag[1]})

\* the Log calls that have returned after a failed open or write
FailedCalls == {i \in 1..Len(hist) : ~hist[i].ok}

\* C5: every Log call with a non-empty path whose open or write failed has
\* put one diagnostic on standard error.
C5_DiagnosticPerFailure ==
  AllReturned => DiagCount = Cardinality(FailedCalls)

\* the destination a path names
Dest(p) == IF p = "" THEN cerr ELSE files[p]

\* the places of content where the text s starts
Places(s, content) ==
  {k \in 1..(Len(content) - Len(s) + 1) :
     SubSeq(content, k, k + Len(s) - 1) = s}

\* C6: a Log call made with the empty path leaves its message and one line
\* terminator at the end of standard error and changes no file; standard
\* error holds the lines of the calls made with the empty path, in order.
C6_EmptyPathToStderr ==
  /\ \A t \in Threads :
       (pc[t] = "unlock" /\ filename_ = "")
          => IsSuffix(msg[t] \o <<NL>>, cerr)
  /\ AllReturned => cerr = LinesOf(CallsTo(""))
  /\ \A i \in 1..Len(hist) : \A p \in FilePaths :
       hist[i].path = "" => Places(hist[i].text, files[p]) = {}

\* a call with the empty path has returned after a call that wrote a file
C6_Witness ==
  /\ AllReturned
  /\ Len(hist) >= 2
  /\ hist[1].path \in FilePaths /\ files[hist[1].path] # <<>>
  /\ hist[2].path = ""
  /\ cerr = Line(hist[2])

\* C7: of two successful Log calls to the same destination, the line of the
\* one that took the lock first stands wholly before the line of the other;
\* in particular the lines of one thread stand in the order it published
\* them.
C7_LinesInLockOrder ==
  \A i \in 1..Len(hist) : \A j \in (i + 1)..Len(hist) :
    (hist[i].path = hist[j].path /\ hist[i].ok /\ hist[j].ok)
      => /\ Places(Line(hist[i]), Dest(hist[i].path)) # {}
         /\ \A a \in Places(Line(hist[i]), Dest(hist[i].path)) :
              \A b \in Places(hist[j].text, Dest(hist[j].path)) :
                a + Len(Line(hist[i])) <= b

\* one thread has published two lines to a file, another thread one
\* between them
C7_Witness ==
  /\ AllReturned
  /\ Len(hist) = 3
  /\ hist[1].owner = hist[3].owner /\ hist[2].owner # hist[1].owner
  /\ \E p \in FilePaths : OnlyTo(p) /\ Len(files[p]) = Len(LinesOf(hist))

\* the Log calls of thread t that have taken the lock
CallsBy(t) == SelectSeq(hist, LAMBDA h : h.owner = t)

\* C8: a message that is still open has not called Log; once destroyed it
\* has called Log exactly once, with the text of its buffer, whatever was
\* streamed into it.
C8_PublishedOnceAtDestruction ==
  \A t \in Threads :
    /\ nlog[t] = calls[t] - (IF pc[t] \in {"open", "streamed"} THEN 1 ELSE 0)
    /\ Len(CallsBy(t)) = nlog[t] - (IF pc[t] = "lock" THEN 1 ELSE 0)
    /\ (pc[t] = "lock" \/ InLog(t)) => msg[t] = stream_[t]
    /\ pc[t] \in {"open", "streamed"} =>
         \A i \in 1..Len(hist) : ~IsPrefix(hist[i].text, stream_[t])

\* a thread has published a message without a body and holds a second one
\* open, with a body, that is not published yet
C8_Witness ==
  \E t \in Threads :
    /\ pc[t] = "streamed" /\ calls[t] = 2 /\ nlog[t] = 1
    /\ Len(CallsBy(t)) = 1
    /\ \A b \in Bodies : ~IsSuffix(b, CallsBy(t)[1].text)
    /\ \E b \in Bodies : IsSuffix(b, stream_[t])

\* where the severity character stands in a header
LevelPlace(fmt) == IF fmt = "kDEFAULT" THEN 1 ELSE 22

\* C9: the index into the table of display characters is min(level, INFO),
\* within the table, and the header of either format shows 'E' for ERROR,
\* 'W' for WARNING and 'I' for every level from INFO upwards.
C9_LevelClamped ==
  \A t \in Threads :
    pc[t] \in {"open", "streamed"} =>
      /\ LevelIndex(args[t].level) \in 0..(Len(level_name_) - 1)
      /\ stream_[t][LevelPlace(hdrfmt[t])] =
           (IF args[t].level = kERROR THEN "E"
            ELSE IF args[t].level = kWARNING THEN "W" ELSE "I")

\* a message with a level above INFO is open in the ISO8601 format
C9_Witness ==
  \E t \in Threads :
    /\ pc[t] = "open" /\ args[t].level > kINFO /\ hdrfmt[t] = "kISO8601"
    /\ stream_[t][22] = "I"

\* the part of path after its last '/', or path when it has none
AfterLastSlash(path) ==
  CHOOSE s \in {SubSeq(path, k, Len(path)) : k \in 1..(Len(path) + 1)} :
    /\ \A i \in 1..Len(s) : s[i] # "/"
    /\ Len(s) = Len(path) \/ path[Len(path) - Len(s)] = "/"

\* the end of a header: pid, file field, line
HeaderEnd(t, field) ==
  <<" ">> \o Dec(Pid) \o <<" ">> \o field \o <<":">>
    \o Dec(args[t].line + LineOf(t, calls[t])) \o <<"]", " ">>

\* C10: the file field of the header is the text after the last '/' of the
\* source path (empty when the path ends in '/'), and the whole path when
\* it holds no '/'.
C10_FileFieldIsBaseName ==
  \A t \in Threads :
    pc[t] = "open" =>
      IsSuffix(HeaderEnd(t, AfterLastSlash(args[t].file)), stream_[t])

\* a message whose source path holds two separators and ends in one is
\* open
C10_Witness ==
  \E t \in Threads :
    /\ pc[t] = "open"
    /\ args[t].file = <<"/", "a", "/">>
    /\ IsSuffix(HeaderEnd(t, <<>>), stream_[t])

\* the digits of n in a field of two, and of six, zero-padded
TwoDigits(n) == <<Digit((n \div 10) % 10), Digit(n % 10)>>

SixDigits(n) ==
  <<Digit((n \div 100000) % 10), Digit((n \div 10000) % 10),
    Digit((n \div 1000) % 10), Digit((n \div 100) % 10),
    Digit((n \div 10) % 10), Digit(n % 10)>>

\* the severity character the specification gives a level
SeverityChar(level) ==
  IF level = kERROR THEN "E" ELSE IF level = kWARNING THEN "W" ELSE "I"

\* pid, file and line as both layouts end
Location(t) ==
  Dec(Pid) \o <<" ">> \o AfterLastSlash(args[t].file) \o <<":">>
    \o Dec(args[t].line + LineOf(t, calls[t])) \o <<"]", " ">>

\* `I0304 12:08:45.123456 5821 server.cc:42] `
ExampleDefault ==
  <<"I", "0", "3", "0", "4", " ", "1", "2", ":", "0", "8", ":", "4", "5", ".",
    "1", "2", "3", "4", "5", "6", " ", "5", "8", "2", "1", " ", "s", "e", "r",
    "v", "e", "r", ".", "c", "c", ":", "4", "2", "]", " ">>

\* C11: under Format DEFAULT the header is the severity character, month
\* (from 1) and day in two digits each, a space, hh:mm:ss in two digits
\* each, '.', the microseconds in six digits, a space, the pid, a space,
\* file ':' line and '] ', with no newline; the call of the example
\* renders `I0304 12:08:45.123456 5821 server.cc:42] `.
C11_DefaultLayout ==
  \A t \in Threads :
    (pc[t] = "open" /\ hdrfmt[t] = "kDEFAULT") =>
      /\ stream_[t] =
           <<SeverityChar(args[t].level)>> \o TwoDigits(args[t].tm.mon + 1)
             \o TwoDigits(args[t].tm.mday) \o <<" ">>
             \o TwoDigits(args[t].tm.hour) \o <<":">>
             \o TwoDigits(args[t].tm.min) \o <<":">>
             \o TwoDigits(args[t].tm.sec) \o <<".">>
             \o SixDigits(args[t].tm.usec) \o <<" ">> \o Location(t)
      /\ \A i \in 1..Len(stream_[t]) : stream_[t][i] # NL
      /\ (args[t] = ExampleInput /\ calls[t] = 1 /\ t = 1)
            => stream_[t] = ExampleDefault

\* the message of the example is open under Format DEFAULT
C11_Witness ==
  /\ pc[1] = "open" /\ hdrfmt[1] = "kDEFAULT"
  /\ args[1] = ExampleInput
  /\ stream_[1] = ExampleDefault

\* `2024-03-04T12:08:45Z I 5821 server.cc:42] `
ExampleISO8601 ==
  <<"2", "0", "2", "4", "-", "0", "3", "-", "0", "4", "T", "1", "2", ":", "0",
    "8", ":", "4", "5", "Z", " ", "I", " ", "5", "8", "2", "1", " ", "s", "e",
    "r", "v", "e", "r", ".", "c", "c", ":", "4", "2", "]", " ">>

\* the four digits of a calendar year
FourDigits(n) ==
  <<Digit((n \div 1000) % 10), Digit((n \div 100) % 10),
    Digit((n \div 10) % 10), Digit(n % 10)>>

\* C12: under Format ISO8601 the header is the year in four digits, '-',
\* month (from 1), '-', day, 'T', hh:mm:ss in two digits each, 'Z', a space,
\* the severity character, a space, the pid, a space, file ':' line and
\* '] ', with no microseconds and no newline; the call of the example
\* renders `2024-03-04T12:08:45Z I 5821 server.cc:42] `.
C12_ISO8601Layout ==
  \A t \in Threads :
    (pc[t] = "open" /\ hdrfmt[t] = "kISO8601") =>
      /\ stream_[t] =
           FourDigits(args[t].tm.year + 1900) \o <<"-">>
             \o TwoDigits(args[t].tm.mon + 1) \o <<"-">>
             \o TwoDigits(args[t].tm.mday) \o <<"T">>
             \o TwoDigits(args[t].tm.hour) \o <<":">>
             \o TwoDigits(args[t].tm.min) \o <<":">>
             \o TwoDigits(args[t].tm.sec) \o <<"Z", " ">>
             \o <<SeverityChar(args[t].level)>> \o <<" ">> \o Location(t)
      /\ \A i \in 1..Len(stream_[t]) : stream_[t][i] # NL
      /\ (args[t] = ExampleInput /\ calls[t] = 1 /\ t = 1)
            => stream_[t] = ExampleISO8601

\* the message of the example is open under Format ISO8601
C12_Witness ==
  /\ pc[1] = "open" /\ hdrfmt[1] = "kISO8601"
  /\ args[1] = ExampleInput
  /\ stream_[1] = ExampleISO8601

\* the text s is laid out as a header of format fmt
HasLayout(fmt, s) ==
  /\ Len(s) >= 20
  /\ IF fmt = "kDEFAULT"
     THEN s[6] = " " /\ s[9] = ":" /\ s[15] = "."
     ELSE s[5] = "-" /\ s[11] = "T" /\ s[20] = "Z"

\* C13: a message keeps the header of the Format that was active when it
\* was constructed: its buffer, the text it hands to Log and the line it
\* leaves on the destination have that layout, whatever the Format has
\* become since.
C13_FormatFixedAtConstruction ==
  \A t \in Threads :
    /\ pc[t] # "idle" => HasLayout(hdrfmt[t], stream_[t])
    /\ (pc[t] = "lock" \/ InLog(t)) => HasLayout(hdrfmt[t], msg[t])
    /\ pc[t] = "unlock" =>
         /\ HasLayout(hdrfmt[t], hist[Len(hist)].text)
         /\ IsSuffix(Line(hist[Len(hist)]), Dest(filename_))

\* a message constructed under DEFAULT has been written in that layout
\* although the Format was ISO8601 before it was destroyed
C13_Witness ==
  /\ pc[1] = "unlock" /\ hdrfmt[1] = "kDEFAULT" /\ format_ = "kISO8601"
  /\ HasLayout("kDEFAULT", hist[Len(hist)].text)
  /\ ~HasLayout("kISO8601", hist[Len(hist)].text)
  /\ IsSuffix(Line(hist[Len(hist)]), cerr)
  /\ Len(hist) = 1

\* the Log calls that ran with a file path and whose file did not open, the
\* one in progress included
OpenFailed(i) ==
  /\ hist[i].path # ""
  /\ \/ ~hist[i].ok
     \/ /\ i = Len(hist)
        /\ pc[hist[i].owner] \in {"write", "endl", "unlock"}
        /\ ~file_stream_.open

\* C14: the message of a Log call whose file does not open is dropped: its
\* text reaches neither a file nor standard error, and standard error gets
\* nothing but diagnostics from calls made with a file path.
C14_DroppedWhenOpenFails ==
  /\ \A i \in 1..Len(hist) :
       OpenFailed(i) =>
         /\ Places(hist[i].text, cerr) = {}
         /\ \A p \in FilePaths : Places(hist[i].text, files[p]) = {}
  /\ \A i \in 1..Len(hist) :
       hist[i].path # "" => Places(hist[i].text, cerr) = {}

\* a call to a file whose directory is missing has returned and its
\* message is nowhere, while a call to standard error left its line
C14_Witness ==
  /\ AllReturned
  /\ \E i, j \in 1..Len(hist) :
       /\ hist[i].path # "" /\ ~hist[i].ok
       /\ hist[j].path = "" /\ IsSuffix(Line(hist[j]), cerr)
       /\ Places(hist[i].text, cerr) = {}
       /\ \A p \in FilePaths : Places(hist[i].text, files[p]) = {}

\* the line terminated by the thread that holds the lock
LineBy(t) == msg[t] \o <<NL>>

\* C15: a step of the program leaves every file as it is or adds one whole
\* line (the message of the call in progress and its terminator) at its
\* end, also when the step closes the handle and opens the same path
\* again: nothing written earlier is truncated or rewritten.
C15_AppendOnly ==
  [][\A p \in FilePaths :
       \/ files'[p] = files[p]
       \/ /\ mutex_ # NoThread
          /\ files'[p] = files[p] \o LineBy(mutex_)]_vars

\* the handle on A was closed and A opened again, and A holds the line
\* written before the reopening followed by the line written after it
C15_Witness ==
  /\ AllReturned
  /\ file_stream_.opens = 2 /\ file_stream_.closes = 1
  /\ \A i \in 1..Len(hist) : hist[i].path \in {"A", ""} /\ hist[i].ok
  /\ Len(CallsTo("A")) = 2
  /\ files["A"] = LinesOf(CallsTo("A"))

\* the Log call of hist[i] has returned
Returned(i) == i < Len(hist) \/ ~InLog(hist[i].owner)

\* C16: whatever the enable flags and the verbosity are, a Log call whose
\* stream operations succeed leaves its message and one terminator exactly
\* once in the destination configured when it ran, and nowhere else; at
\* the end of the call the line is the last thing in that destination.
C16_LogIgnoresFlags ==
  /\ \A i \in 1..Len(hist) :
       Returned(i) /\ hist[i].ok =>
         /\ Cardinality(Places(Line(hist[i]), Dest(hist[i].path))) = 1
         /\ \A q \in (FilePaths \cup {""}) \ {hist[i].path} :
              Places(hist[i].text, Dest(q)) = {}
  /\ \A t \in Threads :
       pc[t] = "unlock" /\ CallOk => IsSuffix(LineBy(t), Dest(filename_))

\* a call that started with the severity of its message disabled and the
\* verbosity changed is at its end, and its line is in the file
C16_Witness ==
  /\ pc[1] = "unlock"
  /\ ~hist[Len(hist)].flags[LevelIndex(args[1].level) + 1]
  /\ hist[Len(hist)].vlevel # 0
  /\ filename_ = "A"
  /\ IsSuffix(LineBy(1), files["A"])

\* what Flush has to leave alone
FlushFrame ==
  <<file_stream_, file_name_changed_, filename_, format_, enables_,
    vlevel_, mutex_, files, cerr, pc>>

\* C17: Flush can be called whoever holds the Logger lock, so it never
\* waits for a Log call; a Flush step leaves the file handle, the pending
\* flag, the path, the format, the enable flags, the lock, every file and
\* the text of standard error unchanged; and no Flush call raises.
C17_FlushOnlyStderr ==
  /\ [](Len(flushlog) < MaxFlush => ENABLED Flush)
  /\ [][flushlog' # flushlog => UNCHANGED FlushFrame]_vars
  /\ [](\A i \in 1..Len(flushlog) : ~flushlog[i].raised)

\* Flush ran while thread 1 was inside Log, which still holds the lock
C17_Witness ==
  /\ flushlog # <<>>
  /\ flushlog[Len(flushlog)].owner = 1
  /\ mutex_ = 1
  /\ pc[1] \in {"check", "write", "endl", "cerr", "cerrnl"}

\* no open made by Log has failed so far
OpensSucceeded ==
  /\ file_stream_.bits = {}
  /\ \A i \in 1..Len(hist) : hist[i].ok

\* the step is the one in which Log looks at the path, the handle and the flag
LogChecks == \E t \in Threads : pc[t] = "check" /\ pc'[t] # "check"

\* C18: the pending flag is false when a Log call with a non-empty path
\* is about to return; a step taken while the handle is open and no change
\* is pending calls neither close nor open; when opens succeed, open is
\* called once by the Log call that finds the handle closed or a change
\* pending and by no other step, so never more often than the path changed.
C18_FlagClearedOpenOnce ==
  /\ [](\A t \in Threads :
         pc[t] = "unlock" /\ filename_ # "" => ~file_name_changed_)
  /\ [][file_stream_.open /\ ~file_name_changed_ =>
          /\ file_stream_'.opens = file_stream_.opens
          /\ file_stream_'.closes = file_stream_.closes
          /\ file_stream_'.open]_vars
  /\ [][file_stream_'.opens =
          IF /\ LogChecks
             /\ filename_ # ""
             /\ file_name_changed_ \/ ~file_stream_.open
          THEN file_stream_.opens + 1
          ELSE file_stream_.opens]_vars
  /\ [](OpensSucceeded => file_stream_.opens <= nsets)

\* two calls wrote to A through the handle opened by the first of them
C18_Witness ==
  /\ AllReturned
  /\ Len(CallsTo("A")) = 2
  /\ OpensSucceeded
  /\ file_stream_.open /\ file_stream_.path = "A"
  /\ file_stream_.opens = 1 /\ file_stream_.closes = 0
  /\ files["A"] = LinesOf(CallsTo("A"))

\* C19: a stream on which an open has failed is not open; a Log call that
\* finds the path non-empty and the handle not open calls open once, on
\* the configured path, and when that path can be opened the handle comes
\* out open on it with no failure left; a call that is about to return
\* with the handle open has its line at the end of the configured file.
C19_FailedOpenIsRetried ==
  /\ []("failbit" \in file_stream_.bits => ~file_stream_.open)
  /\ [][LogChecks /\ filename_ # "" /\ ~file_stream_.open =>
          /\ file_stream_'.opens = file_stream_.opens + 1
          /\ file_stream_'.open = (filename_ \in dirs)
          /\ filename_ \in dirs =>
                file_stream_'.path = filename_ /\ file_stream_'.bits = {}]_vars
  /\ [](\A t \in Threads :
         pc[t] = "unlock" /\ filename_ # "" /\ file_stream_.open =>
           IsSuffix(LineBy(t), files[filename_]))

\* a call to B failed to open it, and the next call to B, made once B can
\* be opened, has left its line in B
C19_Witness ==
  /\ AllReturned
  /\ Len(hist) = 2
  /\ hist[1].path = "B" /\ ~hist[1].ok
  /\ hist[2].path = "B" /\ hist[2].ok
  /\ file_stream_.opens = 2
  /\ files["B"] = Line(hist[2])

\* C20: while the path is empty no step of a Log call changes the file
\* handle or the pending flag; changing the path leaves the handle as it
\* is; and an open handle stops being open only in the step of a Log call
\* that finds a non-empty path and a pending change.
C20_EmptyPathKeepsHandle ==
  /\ [][filename_ = "" /\ (mutex_ # NoThread \/ mutex_' # NoThread) =>
          UNCHANGED <<file_stream_, file_name_changed_>>]_vars
  /\ [][filename_' # filename_ => file_stream_' = file_stream_]_vars
  /\ [][file_stream_.open /\
          (~file_stream_'.open \/
           file_stream_'.closes # file_stream_.closes) =>
            LogChecks /\ filename_ # "" /\ file_name_changed_]_vars

\* a call wrote to A, the path was set back to empty and a second call
\* wrote to standard error: the handle on A is still open and the change
\* still pending
C20_Witness ==
  /\ AllReturned
  /\ Len(hist) = 2
  /\ hist[1].path = "A" /\ hist[2].path = ""
  /\ filename_ = ""
  /\ cerr = Line(hist[2])
  /\ file_stream_.open /\ file_stream_.path = "A"
  /\ file_stream_.closes = 0
  /\ file_name_changed_
====
